---- MODULE Spec2Model ----
(***************************************************************************)
(* Model of get_rid_of_dup.py: the 'search' and 'checksum' commands        *)
(* (calculate_checksums, summarize_duplicates, save_checksums,             *)
(* display_summary), the 'delete' command (load_checksums,                 *)
(* summarize_duplicates, delete_duplicates) and the 'dedup' command        *)
(* (calculate_checksums_single_dir, summarize_duplicates_single_dir,       *)
(* save_checksums_single_dir, delete_duplicates_single_dir).               *)
(*                                                                         *)
(* delete_duplicates_single_dir is delete_duplicates line for line, with   *)
(* `directory` for both directories and "original" for "base"; the driver  *)
(* actions below model both and read the names through `command`.          *)
(*                                                                         *)
(* Python dicts keep insertion order; a dict is modelled as a sequence of  *)
(* [k, v] entries with unique keys.  A string (a text typed by the         *)
(* operator, a path, a checksum, a line of the checksum file without its   *)
(* newline) is a sequence of symbols: one-character strings, and names     *)
(* such as "BASE" or "d1" that stand for a run of characters none of which *)
(* is a blank, a tab or a separator.                                       *)
(***************************************************************************)
EXTENDS Integers, Sequences, FiniteSets, TLC

VARIABLES
    command,          \* args.command
    target_dir,       \* os.path.abspath(args.path), the other_dir of a command
    skip_existing,    \* args.skip_existing
    tree,             \* files of base_dir, in the order os.walk lists them
    other_tree,       \* files of target_dir, in the order os.walk lists them
    hashed,           \* calls of compute_xxhash64 made by this command
    summary,          \* the totals display_summary printed, or NoSummary
    previous,         \* the command run before this one and its tables, or NoPass
    checksums,        \* dict checksum -> {"original": .., "duplicates": [..]}
    checksum_file,    \* lines of the persisted checksum file
    fs,               \* absolute paths that exist in the file system
    fs0,              \* the file system when the command started
    locked,           \* absolute paths whose os.remove raises (permission denied)
    confirm,          \* args.confirm
    sleep_time,       \* args.sleep_time
    base_checksums,   \* dict checksum -> {"path": p}
    other_checksums,  \* dict checksum -> list of {"path": p}
    duplicates,       \* dict checksum -> {"base": .., "duplicates": [..]}
    files_to_delete,  \* list of {"base": .., "duplicate": ..}
    idx,              \* cursor of the interactive loop / enumerate index of the batch loop
    skip_count,       \* number of further items to delete without prompting
    auto_left,        \* iterations left of the `for _ in range(skip_count)` loop
    total_deleted,    \* the deleted counter
    pc,               \* position of the control flow
    preview,          \* the lookahead list printed before the latest prompt
    report,           \* the final report printed, or NoReport
    sleeps,           \* number of time.sleep calls made
    inputs,           \* log of the texts read from input(), when one is kept
    attempts,         \* deletion attempts made so far: [item, result]
    cmd,              \* the latest text read from input(), or NoText
    cmd_idx,          \* cursor at which the latest text was read
    cmd_from,         \* number of deletion attempts made before it was read
    events            \* what the driver printed and did, in order, when it is recorded

vars == <<command, target_dir, skip_existing, tree, other_tree, hashed,
          summary, previous, checksums, checksum_file, fs, fs0, locked, confirm, sleep_time, base_checksums,
          other_checksums, duplicates, files_to_delete, idx, skip_count,
          auto_left, total_deleted, pc, preview, report, sleeps, inputs,
          attempts, cmd, cmd_idx, cmd_from, events>>

-----------------------------------------------------------------------------
(* Bounds of the model *)

MaxQueue == 3          \* OTHER lines of a checksum file of the driver runs
MaxScenarioQueue == 5  \* OTHER lines of a checksum file of the scenario runs
MaxLines == 4          \* lines of a checksum file of the resolver runs
MaxN == 3              \* largest <number> typed after y or n
MaxLog == 3            \* texts a kept log holds before it is given up
MaxTree == 4           \* files of a tree of the digester runs
MaxBase == 2           \* files of base_dir in the two-tree digester runs
MaxWalk == 3           \* files of a tree of the runs over every tree and root
MaxReads == 2          \* texts read at the prompt in a run that is run again

(* Program constants *)

list_next == 5         \* --list-next default

base_dir == <<"base">>
other_dir == target_dir

update_checksum_file == TRUE   \* --update-checksum-file default

\* no command was run before this one
NoPass ==
    [command |-> "none", base_checksums |-> <<>>, other_checksums |-> <<>>,
     checksums |-> <<>>, fs |-> {}]

NoReport == [printed |-> FALSE, total_deleted |-> 0, reminder |-> "none"]

\* no text has been read yet
NoText == <<"(none)">>

\* the log of the texts read: kept from the start of a scenario run, never
\* kept in the other runs
NoLog == [kept |-> FALSE, texts |-> <<>>]

EmptyLog == [kept |-> TRUE, texts |-> <<>>]

\* the record of the prompts, skips and deletion attempts of the driver: kept
\* in the runs that compare the two drivers, never kept in the other runs
NoEvents == [kept |-> FALSE, list |-> <<>>]

EmptyEvents == [kept |-> TRUE, list |-> <<>>]

Noted(record, new) ==
    IF record.kept THEN [record EXCEPT !.list = @ \o new] ELSE record

-----------------------------------------------------------------------------
(* Generic helpers *)

Min(a, b) == IF a < b THEN a ELSE b

\* dict helpers: ordered list of entries [k, v]
DictKeys(d) == {d[i].k : i \in 1..Len(d)}

DictGet(d, key) == (CHOOSE i \in 1..Len(d) : d[i].k = key)

DictValue(d, key) == d[DictGet(d, key)].v

\* d[key] = value : replaces in place, or appends a new key at the end
DictSet(d, key, value) ==
    IF key \in DictKeys(d)
    THEN [d EXCEPT ![DictGet(d, key)] = [k |-> key, v |-> value]]
    ELSE Append(d, [k |-> key, v |-> value])

\* os.path.abspath(os.path.join(dir, rel)), for an absolute dir and a
\* relative path without "." or ".."
AbsPath(dir, rel) == dir \o <<"/">> \o rel

\* str.strip(): leading and trailing whitespace removed
Whitespace == {" ", "\t"}

RECURSIVE strip(_)
strip(s) ==
    IF Len(s) = 0 THEN s
    ELSE IF s[1] \in Whitespace THEN strip(Tail(s))
    ELSE IF s[Len(s)] \in Whitespace THEN strip(SubSeq(s, 1, Len(s) - 1))
    ELSE s

\* str.split(sep): the fields between the separators; field is the field
\* being read, at position i of s
RECURSIVE SplitFrom(_, _, _, _)
SplitFrom(s, sep, i, field) ==
    IF i > Len(s) THEN <<field>>
    ELSE IF s[i] = sep THEN <<field>> \o SplitFrom(s, sep, i + 1, <<>>)
    ELSE SplitFrom(s, sep, i + 1, Append(field, s[i]))

split(s, sep) == SplitFrom(s, sep, 1, <<>>)

\* the text of f"{a}\t{b}" and f"{a}\t{b}\t{c}", for a list of fields
RECURSIVE TabJoin(_)
TabJoin(fields) ==
    IF Len(fields) = 1 THEN fields[1]
    ELSE fields[1] \o <<"\t">> \o TabJoin(Tail(fields))

-----------------------------------------------------------------------------
(* Digest Store: load_checksums *)

\* other_checksums[checksum].append(info) on a defaultdict(list)
DictAppend(d, key, info) ==
    IF key \in DictKeys(d)
    THEN [d EXCEPT ![DictGet(d, key)].v = Append(@, info)]
    ELSE Append(d, [k |-> key, v |-> <<info>>])

\* `category, checksum, path = line.strip().split("\t")` raises ValueError
\* unless the line has exactly three fields
Unpacks(line) == Len(split(strip(line), "\t")) = 3

\* the `for line in f` loop from line i on; the ValueError of a malformed
\* line leaves the loop, and the tables built so far are what is returned
RECURSIVE LoadLines(_, _, _, _)
LoadLines(lines, i, base, other) ==
    IF i > Len(lines) THEN [base |-> base, other |-> other]
    ELSE IF ~Unpacks(lines[i]) THEN [base |-> base, other |-> other]
    ELSE LET category == split(strip(lines[i]), "\t")[1]
             checksum == split(strip(lines[i]), "\t")[2]
             path     == split(strip(lines[i]), "\t")[3]
         IN  IF category = <<"BASE">>
             THEN LoadLines(lines, i + 1,
                            DictSet(base, checksum, [path |-> path]), other)
             ELSE IF category = <<"OTHER">>
             THEN LoadLines(lines, i + 1, base,
                            DictAppend(other, checksum, [path |-> path]))
             ELSE LoadLines(lines, i + 1, base, other)

load_checksums(lines) == LoadLines(lines, 1, <<>>, <<>>)

-----------------------------------------------------------------------------
(* Duplicate Resolver: summarize_duplicates *)

\* the `for checksum, info_list in other_checksums.items()` loop from entry i on
RECURSIVE SummarizeFrom(_, _, _, _)
SummarizeFrom(base, other, i, dups) ==
    IF i > Len(other) THEN dups
    ELSE IF other[i].k \in DictKeys(base)
    THEN SummarizeFrom(base, other, i + 1,
             DictSet(dups, other[i].k,
                     [base |-> DictValue(base, other[i].k),
                      duplicates |-> other[i].v]))
    ELSE SummarizeFrom(base, other, i + 1, dups)

\* variant: the first record of a Comparison list is taken for the kept copy,
\* as in single-tree mode
RECURSIVE SummarizeLaterFrom(_, _, _, _)
SummarizeLaterFrom(base, other, i, dups) ==
    IF i > Len(other) THEN dups
    ELSE IF other[i].k \in DictKeys(base)
    THEN SummarizeLaterFrom(base, other, i + 1,
             DictSet(dups, other[i].k,
                     [base |-> DictValue(base, other[i].k),
                      duplicates |-> Tail(other[i].v)]))
    ELSE SummarizeLaterFrom(base, other, i + 1, dups)

summarize_duplicates_later(base, other) ==
    SummarizeLaterFrom(base, other, 1, <<>>)

summarize_duplicates(base, other) == SummarizeFrom(base, other, 1, <<>>)

-----------------------------------------------------------------------------
(* Tree Digester of the 'search' and 'checksum' commands *)

\* the hash primitive: a fixed injective map from file contents to checksums
compute_xxhash64(content) ==
    CASE content = "A" -> <<"d1">> [] content = "B" -> <<"d2">>
      [] OTHER -> <<"d3">>

\* get_all_files: the files of a tree that exist, in the order of os.walk
get_all_files(dir, files) ==
    SelectSeq(files, LAMBDA f : AbsPath(dir, f.path) \in fs)

FileInfo(dir, rel) == [path |-> rel, abs_path |-> AbsPath(dir, rel)]

NoExisting == [raised |-> FALSE, base |-> <<>>, other |-> <<>>]

\* load_existing_checksums, the `for line in f` loop from line i on:
\* dicts path -> checksum; the unpacking of a line that has not three
\* fields raises ValueError, a category other than BASE and OTHER KeyError
RECURSIVE ExistingFrom(_, _, _, _)
ExistingFrom(lines, i, base, other) ==
    IF i > Len(lines) THEN [raised |-> FALSE, base |-> base, other |-> other]
    ELSE LET fields == split(strip(lines[i]), "\t")
         IN  IF Len(fields) # 3
             THEN [raised |-> TRUE, base |-> base, other |-> other]
             ELSE IF fields[1] = <<"BASE">>
             THEN ExistingFrom(lines, i + 1,
                               DictSet(base, fields[3], fields[2]), other)
             ELSE IF fields[1] = <<"OTHER">>
             THEN ExistingFrom(lines, i + 1, base,
                               DictSet(other, fields[3], fields[2]))
             ELSE [raised |-> TRUE, base |-> base, other |-> other]

load_existing_checksums(lines) == ExistingFrom(lines, 1, <<>>, <<>>)

\* one of the two `for idx, file_path in enumerate(...)` loops, from file i
\* on: the table, and the number of calls of compute_xxhash64 so far
RECURSIVE DigestFrom(_, _, _, _, _, _, _)
DigestFrom(files, dir, reuse, existing, i, table, calls) ==
    IF i > Len(files) THEN [table |-> table, calls |-> calls]
    ELSE LET rel_path == files[i].path
             known == reuse /\ rel_path \in DictKeys(existing)
             checksum == IF known THEN DictValue(existing, rel_path)
                         ELSE compute_xxhash64(files[i].content)
         IN  DigestFrom(files, dir, reuse, existing, i + 1,
                        DictSet(table, checksum, FileInfo(dir, rel_path)),
                        IF known THEN calls ELSE calls + 1)

\* calculate_checksums over the files of the two trees; lines are the lines
\* of the checksum file, read when reuse (skip_existing) is on
calculate_checksums(base_files, other_files, reuse, lines) ==
    LET existing == IF reuse THEN load_existing_checksums(lines)
                    ELSE NoExisting
        base == DigestFrom(base_files, base_dir, reuse, existing.base,
                           1, <<>>, 0)
        other == DigestFrom(other_files, other_dir, reuse, existing.other,
                            1, <<>>, base.calls)
    IN  [raised |-> existing.raised,
         base_checksums |-> base.table,
         other_checksums |-> other.table,
         total_base_files |-> Len(base_files),
         total_other_files |-> Len(other_files),
         calls |-> other.calls]

\* save_checksums: the lines written, BASE records and then OTHER records
save_checksums(base, other) ==
    [i \in 1..Len(base) |->
        TabJoin(<< <<"BASE">>, base[i].k, base[i].v.path >>)]
    \o [i \in 1..Len(other) |->
        TabJoin(<< <<"OTHER">>, other[i].k, other[i].v.path >>)]

\* len() of a list or of a dict
len(x) == Cardinality(DOMAIN x)

RECURSIVE SumDuplicates(_, _)
SumDuplicates(dups, i) ==
    IF i > Len(dups) THEN 0
    ELSE len(dups[i].v.duplicates) + SumDuplicates(dups, i + 1)

NoSummary ==
    [total_base_files |-> 0, total_other_files |-> 0, total_duplicates |-> 0,
     total_unique_files |-> 0, printed |-> FALSE, raised |-> FALSE]

\* display_summary as 'search' and 'checksum' call it: the totals printed;
\* "duplicates" of a group is then the one dict of the Comparison table,
\* `for dup in info["duplicates"]` runs over its keys, and dup["path"] on a
\* key raises TypeError
display_summary(dups, total_base_files, total_other_files) ==
    [total_base_files |-> total_base_files,
     total_other_files |-> total_other_files,
     total_duplicates |-> SumDuplicates(dups, 1),
     total_unique_files |-> total_other_files - SumDuplicates(dups, 1),
     printed |-> TRUE,
     raised |-> dups # <<>>]

\* display_summary_single_dir: the totals printed
display_summary_single_dir(dups, walked) ==
    [total_base_files |-> walked,
     total_other_files |-> 0,
     total_duplicates |-> SumDuplicates(dups, 1),
     total_unique_files |-> walked - SumDuplicates(dups, 1),
     printed |-> TRUE,
     raised |-> FALSE]

-----------------------------------------------------------------------------
(* Tree Digester and Duplicate Resolver of the 'dedup' command *)

\* load_existing_checksums_single_dir, from line i on: dict path -> checksum;
\* the unpacking of a line that has not two fields raises ValueError
RECURSIVE ExistingSingleFrom(_, _, _)
ExistingSingleFrom(lines, i, existing) ==
    IF i > Len(lines) THEN [raised |-> FALSE, table |-> existing]
    ELSE LET fields == split(strip(lines[i]), "\t")
         IN  IF Len(fields) # 2
             THEN [raised |-> TRUE, table |-> existing]
             ELSE ExistingSingleFrom(lines, i + 1,
                                     DictSet(existing, fields[2], fields[1]))

load_existing_checksums_single_dir(lines) == ExistingSingleFrom(lines, 1, <<>>)

\* the `for idx, file_path in enumerate(files, start=1)` loop from file i
\* on: the table, and the number of calls of compute_xxhash64 so far
RECURSIVE CalculateFrom(_, _, _, _, _, _)
CalculateFrom(files, reuse, existing, i, table, calls) ==
    IF i > Len(files) THEN [table |-> table, calls |-> calls]
    ELSE LET rel_path == files[i].path
             known == reuse /\ rel_path \in DictKeys(existing)
             checksum == IF known THEN DictValue(existing, rel_path)
                         ELSE compute_xxhash64(files[i].content)
             info == FileInfo(base_dir, rel_path)
             counted == IF known THEN calls ELSE calls + 1
         IN  IF checksum \in DictKeys(table)
             THEN CalculateFrom(files, reuse, existing, i + 1,
                      [table EXCEPT ![DictGet(table, checksum)].v.duplicates
                                        = Append(@, info)],
                      counted)
             ELSE CalculateFrom(files, reuse, existing, i + 1,
                      Append(table, [k |-> checksum,
                                     v |-> [original |-> info,
                                            duplicates |-> <<>>]]),
                      counted)

\* calculate_checksums_single_dir over the files of the tree; lines are the
\* lines of the checksum file, read when reuse (skip_existing) is on
calculate_checksums_single_dir(files, reuse, lines) ==
    LET existing == IF reuse THEN load_existing_checksums_single_dir(lines)
                    ELSE [raised |-> FALSE, table |-> <<>>]
        done == CalculateFrom(files, reuse, existing.table, 1, <<>>, 0)
    IN  [raised |-> existing.raised,
         checksums |-> done.table,
         total_files |-> Len(files),
         calls |-> done.calls]

\* the groups that have duplicates, in table order
RECURSIVE SummarizeSingleFrom(_, _)
SummarizeSingleFrom(table, i) ==
    IF i > Len(table) THEN <<>>
    ELSE IF table[i].v.duplicates # <<>>
    THEN <<table[i]>> \o SummarizeSingleFrom(table, i + 1)
    ELSE SummarizeSingleFrom(table, i + 1)

\* variant: `if info["duplicates"]` is missing
summarize_duplicates_single_dir_all(table) == table

summarize_duplicates_single_dir(table) == SummarizeSingleFrom(table, 1)

\* the lines written for one checksum: the original, then its duplicates
LinesOf(entry) ==
    <<TabJoin(<<entry.k, entry.v.original.path>>)>>
    \o [j \in 1..Len(entry.v.duplicates) |->
            TabJoin(<<entry.k, entry.v.duplicates[j].path>>)]

RECURSIVE SaveSingleFrom(_, _)
SaveSingleFrom(table, i) ==
    IF i > Len(table) THEN <<>>
    ELSE LinesOf(table[i]) \o SaveSingleFrom(table, i + 1)

save_checksums_single_dir(table) == SaveSingleFrom(table, 1)

-----------------------------------------------------------------------------
(* Deletion Driver: delete_duplicates, delete_duplicates_single_dir *)

\* the directory of the duplicates, and the kept copy of a group or item
directory == IF command = "delete" THEN other_dir ELSE base_dir

KeptCopy(info) == IF command = "delete" THEN info.base ELSE info.original

\* variant: the inner loop runs over the duplicates from the last to the first
ItemsOf_reversed(info) ==
    [j \in 1..Len(info.duplicates) |->
        LET d == info.duplicates[Len(info.duplicates) + 1 - j]
        IN  IF command = "delete"
            THEN [base |-> info.base, duplicate |-> d]
            ELSE [original |-> info.original, duplicate |-> d]]

\* variant: the duplicate and the kept copy of an item are exchanged
ItemsOf_swapped(info) ==
    [j \in 1..Len(info.duplicates) |->
        IF command = "delete"
        THEN [base |-> info.duplicates[j], duplicate |-> info.base]
        ELSE [original |-> info.duplicates[j], duplicate |-> info.original]]

\* the inner `for file_info in info["duplicates"]` loop
ItemsOf(info) ==
    [j \in 1..Len(info.duplicates) |->
        IF command = "delete"
        THEN [base |-> info.base, duplicate |-> info.duplicates[j]]
        ELSE [original |-> info.original, duplicate |-> info.duplicates[j]]]

\* the `for info in duplicates.values()` loop from entry i on
RECURSIVE CollectFrom(_, _)
CollectFrom(dups, i) ==
    IF i > Len(dups) THEN <<>>
    ELSE ItemsOf(dups[i].v) \o CollectFrom(dups, i + 1)

CollectFiles(dups) == CollectFrom(dups, 1)

total_files == Len(files_to_delete)

\* duplicate_path of the queue item at 0-based position i
duplicate_path(i) == AbsPath(directory, files_to_delete[i + 1].duplicate.path)

\* variant: `total_deleted += 1` is missing after os.remove
DeleteFile_uncounted(path) ==
    IF path \in fs
    THEN IF path \in locked
         THEN [fs |-> fs, deleted |-> 0, result |-> "error", raised |-> FALSE]
         ELSE [fs |-> fs \ {path}, deleted |-> 0, result |-> "deleted",
               raised |-> FALSE]
    ELSE [fs |-> fs, deleted |-> 0, result |-> "notfound", raised |-> FALSE]

\* variant: os.remove is called outside a try block
DeleteFile_uncaught(path) ==
    IF path \in fs
    THEN IF path \in locked
         THEN [fs |-> fs, deleted |-> 0, result |-> "error", raised |-> TRUE]
         ELSE [fs |-> fs \ {path}, deleted |-> 1, result |-> "deleted",
               raised |-> FALSE]
    ELSE [fs |-> fs, deleted |-> 0, result |-> "notfound", raised |-> FALSE]

\* variant: `total_deleted += 1` also when the file is not found
DeleteFile_counts_missing(path) ==
    IF path \in fs
    THEN IF path \in locked
         THEN [fs |-> fs, deleted |-> 0, result |-> "error", raised |-> FALSE]
         ELSE [fs |-> fs \ {path}, deleted |-> 1, result |-> "deleted",
               raised |-> FALSE]
    ELSE [fs |-> fs, deleted |-> 1, result |-> "notfound", raised |-> FALSE]

\* the exists-check-then-remove block: the new file system, the increment of
\* the deleted counter, the message printed, and whether an exception leaves
\* the block
DeleteFile(path) ==
    IF path \in fs
    THEN IF path \in locked
         THEN [fs |-> fs, deleted |-> 0, result |-> "error", raised |-> FALSE]
         ELSE [fs |-> fs \ {path}, deleted |-> 1, result |-> "deleted",
               raised |-> FALSE]
    ELSE [fs |-> fs, deleted |-> 0, result |-> "notfound", raised |-> FALSE]

\* the lookahead list printed before a prompt
Preview(i) ==
    [j \in 1..(Min(i + list_next, total_files) - i) |->
        [duplicate |-> duplicate_path(i + j - 1),
         base |-> AbsPath(base_dir, KeptCopy(files_to_delete[i + j]).path)]]

-----------------------------------------------------------------------------
(* Texts typed by the operator *)

Digits == <<"0", "1", "2", "3", "4", "5", "6", "7", "8", "9">>

IsDecimal(c) == \E i \in 1..Len(Digits) : Digits[i] = c

DigitValue(c) == (CHOOSE i \in 1..Len(Digits) : Digits[i] = c) - 1

\* characters of Unicode category No with the Digit property, such as the
\* superscript two (written "sup2"): str.isdigit() accepts them, int() does not
OtherDigits == {"sup2"}

\* str.isdigit(): every character is a digit and there is at least one
isdigit(s) ==
    Len(s) > 0 /\ \A i \in 1..Len(s) : IsDecimal(s[i]) \/ s[i] \in OtherDigits

\* int(s) raises ValueError unless s is a non-empty string of decimal digits
IntRaises(s) == Len(s) = 0 \/ \E i \in 1..Len(s) : ~IsDecimal(s[i])

\* int() of a string of decimal digits
RECURSIVE int(_)
int(s) ==
    IF Len(s) = 0 THEN 0
    ELSE 10 * int(SubSeq(s, 1, Len(s) - 1)) + DigitValue(s[Len(s)])

\* the decimal text of a natural number
RECURSIVE NumText(_)
NumText(n) ==
    IF n < 10 THEN <<Digits[n + 1]>>
    ELSE NumText(n \div 10) \o <<Digits[(n % 10) + 1]>>

LowerChar(c) ==
    CASE c = "Y" -> "y" [] c = "N" -> "n" [] c = "A" -> "a" [] c = "L" -> "l"
      [] c = "E" -> "e" [] c = "S" -> "s" [] c = "O" -> "o" [] c = "X" -> "x"
      [] OTHER -> c

\* str.lower()
lower(s) == [i \in 1..Len(s) |-> LowerChar(s[i])]

startswith(s, c) == Len(s) > 0 /\ s[1] = c

\* user_input = input(...).strip().lower()
user_input(text) == lower(strip(text))

\* the branch of the if/elif chain that a text takes
Branch(u) ==
    IF u = <<"y">> THEN "y"
    ELSE IF u = <<"n">> THEN "n"
    ELSE IF startswith(u, "y") /\ isdigit(Tail(u)) THEN "ynum"
    ELSE IF startswith(u, "n") /\ isdigit(Tail(u)) THEN "nnum"
    ELSE IF u = <<"y", "a", "l", "l">> THEN "yall"
    ELSE IF u = <<"n", "a", "l", "l">> THEN "nall"
    ELSE "invalid"

\* texts the operator types at the interactive prompt
Inputs ==
    {<<"y">>, <<"n">>, <<"y", "a", "l", "l">>, <<"n", "a", "l", "l">>}
    \cup {<<"y">> \o NumText(n) : n \in 0..MaxN}
    \cup {<<"n">> \o NumText(n) : n \in 0..MaxN}
    \cup {<<>>, <<"x">>, <<"y", "e", "s">>, <<" ", "Y", " ">>, <<"y", "sup2">>}

\* the texts a kept log records: the commands, typed as they are spelled,
\* with a count of at least one
LoggedTexts ==
    {<<"y">>, <<"n">>, <<"y", "a", "l", "l">>, <<"n", "a", "l", "l">>}
    \cup {<<"y">> \o NumText(n) : n \in 1..MaxN}
    \cup {<<"n">> \o NumText(n) : n \in 1..MaxN}

\* a kept log is given up when it would grow beyond MaxLog, and when any
\* other text is read
Logged(log, text) ==
    IF log.kept /\ Len(log.texts) < MaxLog /\ text \in LoggedTexts
    THEN [log EXCEPT !.texts = Append(@, text)]
    ELSE NoLog

\* texts the operator types at the batch confirmation
Answers ==
    {<<"y", "e", "s">>, <<"Y", "e", "s">>, <<"n", "o">>, <<"y">>, <<>>}

-----------------------------------------------------------------------------
(* Initial states: the command and its arguments, the checksum file that  *)
(* 'delete' reads or the tree that 'dedup' walks, and the file system      *)

Checksums == {<<"d1">>, <<"d2">>}

\* a checksum file with two BASE lines and then n OTHER lines, the i-th for
\* the file o<i>, with checksums d1 and d2 in turn
TreeFile(n) ==
    << TabJoin(<< <<"BASE">>, <<"d1">>, <<"b1">> >>),
       TabJoin(<< <<"BASE">>, <<"d2">>, <<"b2">> >>) >>
    \o [i \in 1..n |->
            TabJoin(<< <<"OTHER">>,
                       IF i % 2 = 1 THEN <<"d1">> ELSE <<"d2">>,
                       <<"o">> \o NumText(i) >>)]

OtherFiles(n) == {AbsPath(other_dir, <<"o">> \o NumText(i)) : i \in 1..n}

BaseFiles == {AbsPath(base_dir, <<"b1">>), AbsPath(base_dir, <<"b2">>)}

\* fields of the lines of an arbitrary small checksum file
Fields == {<<"BASE">>, <<"OTHER">>} \X Checksums \X {<<"p1">>, <<"p2">>}

\* its lines: well-formed ones, and one that has two fields only
Lines == {TabJoin(f) : f \in Fields} \cup {TabJoin(<< <<"OTHER">>, <<"d1">> >>)}

SmallFiles == UNION {[1..n -> Lines] : n \in 0..MaxLines}

\* the files of base_dir for a 'dedup' run that finds n duplicates: n + 2
\* files whose contents are A and B in turn
DedupTree(n) ==
    [i \in 1..(n + 2) |->
        [path |-> <<"t">> \o NumText(i),
         content |-> IF i % 2 = 1 THEN "A" ELSE "B"]]

TreeFiles(files) == {AbsPath(base_dir, files[i].path) : i \in 1..Len(files)}

OtherTreeFiles(files) ==
    {AbsPath(other_dir, files[i].path) : i \in 1..Len(files)}

Contents == {"A", "B"}

\* the name of the i-th file that os.walk lists: the second name ends with a
\* blank and the fourth has a tab inside
Name(i) ==
    IF i = 2 THEN <<"f", "2", " ">>
    ELSE IF i = 4 THEN <<"f", "\t", "4">>
    ELSE <<"f">> \o NumText(i)

\* the tree whose i-th file has the i-th content of c
Files(c) == [i \in 1..Len(c) |-> [path |-> Name(i), content |-> c[i]]]

\* every tree of up to n files: every way for the files that os.walk lists
\* one after the other to have equal or different contents
Trees(n) == {Files(c) : c \in UNION {[1..k -> Contents] : k \in 0..n}}

\* the files of a tree as the tree above its directory lists them
Under(sub, files) ==
    [i \in 1..Len(files) |->
        [path |-> sub \o <<"/">> \o files[i].path,
         content |-> files[i].content]]

\* a 'delete' run: no tree is walked
InitDelete ==
    /\ command = "delete"
    /\ target_dir = <<"other">>
    /\ tree = <<>>
    /\ other_tree = <<>>

InitRun ==
    /\ skip_existing = FALSE
    /\ previous = NoPass
    /\ hashed = 0
    /\ summary = NoSummary
    /\ checksums = <<>>
    /\ base_checksums = <<>>
    /\ other_checksums = <<>>
    /\ duplicates = <<>>
    /\ files_to_delete = <<>>
    /\ idx = 0
    /\ skip_count = 0
    /\ auto_left = 0
    /\ total_deleted = 0
    /\ pc = "main"
    /\ preview = <<>>
    /\ report = NoReport
    /\ sleeps = 0
    /\ attempts = <<>>
    /\ cmd = NoText
    /\ cmd_idx = 0
    /\ cmd_from = 0
    /\ fs0 = fs

\* runs of the driver over every file system: each duplicate is present,
\* missing, or present and not removable
Init ==
    /\ \E n \in 0..MaxQueue :
          \/ /\ InitDelete
             /\ checksum_file = TreeFile(n)
             /\ \E present \in SUBSET OtherFiles(n) :
                   /\ fs = BaseFiles \cup present
                   /\ locked \in SUBSET present
          \/ /\ command = "dedup"
             /\ target_dir = <<>>
             /\ tree = DedupTree(n)
             /\ other_tree = <<>>
             /\ checksum_file = <<>>
             /\ fs = TreeFiles(tree)
             /\ locked \in SUBSET fs
    /\ confirm \in BOOLEAN
    /\ sleep_time \in {0, 1}
    /\ inputs = NoLog
    /\ events = NoEvents
    /\ InitRun

\* runs of the driver over longer queues whose files all exist and are
\* removable
InitScenario ==
    /\ \E n \in 1..MaxScenarioQueue :
          \/ /\ InitDelete
             /\ checksum_file = TreeFile(n)
             /\ fs = BaseFiles \cup OtherFiles(n)
          \/ /\ command = "dedup"
             /\ target_dir = <<>>
             /\ tree = DedupTree(n)
             /\ other_tree = <<>>
             /\ checksum_file = <<>>
             /\ fs = TreeFiles(tree)
    /\ locked = {}
    /\ confirm \in BOOLEAN
    /\ sleep_time \in {0, 1}
    /\ inputs = EmptyLog
    /\ events = NoEvents
    /\ InitRun

\* runs over arbitrary small checksum files
InitResolver ==
    /\ InitDelete
    /\ checksum_file \in SmallFiles
    /\ fs = BaseFiles \cup {AbsPath(other_dir, p) : p \in {<<"p1">>, <<"p2">>}}
    /\ locked = {}
    /\ confirm \in BOOLEAN
    /\ sleep_time \in {0, 1}
    /\ inputs = NoLog
    /\ events = NoEvents
    /\ InitRun

\* runs of the digester over every small tree: 'search' and 'checksum' over
\* two trees, 'dedup' over one
InitDigester ==
    /\ \/ /\ command \in {"search", "checksum"}
          /\ target_dir = <<"other">>
          /\ tree \in Trees(MaxBase)
          /\ other_tree \in Trees(MaxTree)
       \/ /\ command = "dedup"
          /\ target_dir = <<>>
          /\ tree \in Trees(MaxTree)
          /\ other_tree = <<>>
    /\ checksum_file = <<>>
    /\ fs = TreeFiles(tree) \cup OtherTreeFiles(other_tree)
    /\ locked = {}
    /\ confirm = FALSE
    /\ sleep_time = 0
    /\ inputs = NoLog
    /\ events = NoEvents
    /\ InitRun

\* runs of 'checksum' followed by 'delete' over two directories that are
\* apart, the same, or one inside the other, and runs of 'dedup', over every
\* small tree
InitRoots ==
    /\ \/ /\ command = "checksum"
          /\ \/ /\ target_dir = <<"other">>
                /\ tree \in Trees(MaxBase)
                /\ other_tree \in Trees(MaxWalk)
             \/ /\ target_dir = base_dir
                /\ tree \in Trees(MaxWalk)
                /\ other_tree = tree
             \/ /\ target_dir = base_dir \o <<"/", "sub">>
                /\ other_tree \in Trees(MaxWalk)
                /\ \E top \in Trees(1) :
                      tree = top \o Under(<<"sub">>, other_tree)
          /\ confirm = FALSE
          /\ sleep_time = 0
       \/ /\ command = "dedup"
          /\ target_dir = <<>>
          /\ tree \in Trees(MaxWalk)
          /\ other_tree = <<>>
          /\ confirm \in BOOLEAN
          /\ sleep_time \in {0, 1}
    /\ checksum_file = <<>>
    /\ fs = TreeFiles(tree) \cup OtherTreeFiles(other_tree)
    /\ locked = {}
    /\ inputs = NoLog
    /\ events = NoEvents
    /\ InitRun

\* texts typed at the prompt of a run that is run again
TwinTexts ==
    {<<"y">>, <<"n">>, <<"y", "2">>, <<"n", "2">>, <<"y", "a", "l", "l">>,
     <<"n", "a", "l", "l">>, <<"x">>, <<"y", "sup2">>}

\* a 'delete' run whose two directories are the same directory, so that
\* delete_duplicates_single_dir can be called on its queue and its files:
\* each file of the queue is there, is missing, or cannot be removed
InitTwins ==
    /\ command = "delete"
    /\ target_dir = base_dir
    /\ tree = <<>>
    /\ other_tree = <<>>
    /\ \E n \in 0..MaxQueue :
          /\ checksum_file = TreeFile(n)
          /\ \E present \in SUBSET OtherFiles(n) :
                /\ fs = BaseFiles \cup present
                /\ locked \in SUBSET present
    /\ confirm \in BOOLEAN
    /\ sleep_time \in {0, 1}
    /\ inputs = NoLog
    /\ events = EmptyEvents
    /\ InitRun

-----------------------------------------------------------------------------
(* main, 'delete' command *)

MainDelete ==
    /\ pc = "main"
    /\ command = "delete"
    /\ LET loaded == load_checksums(checksum_file)
       IN  /\ base_checksums' = loaded.base
           /\ other_checksums' = loaded.other
           /\ duplicates' = summarize_duplicates(loaded.base, loaded.other)
    /\ pc' = "enter"
    /\ UNCHANGED <<command, events, target_dir, skip_existing, tree, other_tree,
                   hashed, summary, previous, checksums,
                   checksum_file, fs, fs0, locked, confirm, sleep_time,
                   files_to_delete, idx, skip_count, auto_left, total_deleted,
                   preview, report, sleeps, inputs, attempts, cmd, cmd_idx, cmd_from>>

-----------------------------------------------------------------------------
(* main, 'dedup' command *)

MainDedup ==
    /\ pc = "main"
    /\ command = "dedup"
    /\ LET r == calculate_checksums_single_dir(
                    get_all_files(base_dir, tree), skip_existing,
                    checksum_file)
           dups == summarize_duplicates_single_dir(r.checksums)
       IN  IF r.raised
           THEN /\ pc' = "raised"
                /\ UNCHANGED <<checksums, duplicates, checksum_file, hashed,
                               summary>>
           ELSE /\ checksums' = r.checksums
                /\ hashed' = r.calls
                /\ duplicates' = dups
                /\ checksum_file' = IF update_checksum_file
                                    THEN save_checksums_single_dir(r.checksums)
                                    ELSE checksum_file
                /\ summary' = display_summary_single_dir(dups, r.total_files)
                /\ pc' = IF dups # <<>> THEN "enter" ELSE "exit"
    /\ UNCHANGED <<command, events, target_dir, skip_existing, tree, other_tree,
                   previous, fs, fs0, locked, confirm, sleep_time,
                   base_checksums, other_checksums, files_to_delete, idx,
                   skip_count, auto_left, total_deleted, preview, report,
                   sleeps, inputs, attempts, cmd, cmd_idx, cmd_from>>

-----------------------------------------------------------------------------
(* main, 'search' and 'checksum' commands *)

MainSearch ==
    /\ pc = "main"
    /\ command \in {"search", "checksum"}
    /\ LET r == calculate_checksums(get_all_files(base_dir, tree),
                                    get_all_files(other_dir, other_tree),
                                    skip_existing, checksum_file)
           dups == summarize_duplicates(r.base_checksums, r.other_checksums)
           shown == display_summary(dups, r.total_base_files,
                                    r.total_other_files)
       IN  IF r.raised
           THEN /\ pc' = "raised"
                /\ UNCHANGED <<base_checksums, other_checksums, duplicates,
                               checksum_file, hashed, summary>>
           ELSE /\ base_checksums' = r.base_checksums
                /\ other_checksums' = r.other_checksums
                /\ hashed' = r.calls
                /\ duplicates' = dups
                /\ checksum_file' =
                       IF command = "checksum" /\ update_checksum_file
                       THEN save_checksums(r.base_checksums,
                                           r.other_checksums)
                       ELSE checksum_file
                /\ summary' = shown
                /\ pc' = IF shown.raised THEN "raised" ELSE "exit"
    /\ UNCHANGED <<command, events, target_dir, skip_existing, tree, other_tree,
                   previous, checksums, fs, fs0, locked, confirm, sleep_time,
                   files_to_delete, idx, skip_count, auto_left, total_deleted,
                   preview, report, sleeps, inputs, attempts, cmd, cmd_idx,
                   cmd_from>>

-----------------------------------------------------------------------------
(* the program is run again *)

\* the command has ended (it returned, or an exception left it) and the
\* operator runs the command c on the same directories and checksum file,
\* with --skip-existing; a second command is the last one
RunAgain(c) ==
    /\ pc \in {"exit", "returned", "raised"}
    /\ previous = NoPass
    /\ previous' = [command |-> command,
                    base_checksums |-> base_checksums,
                    other_checksums |-> other_checksums,
                    checksums |-> checksums,
                    fs |-> fs0]
    /\ command' = c
    /\ skip_existing' = TRUE
    /\ confirm' \in BOOLEAN
    /\ sleep_time' \in {0, 1}
    /\ fs0' = fs
    /\ pc' = "main"
    /\ hashed' = 0
    /\ summary' = NoSummary
    /\ checksums' = <<>>
    /\ base_checksums' = <<>>
    /\ other_checksums' = <<>>
    /\ duplicates' = <<>>
    /\ files_to_delete' = <<>>
    /\ idx' = 0
    /\ skip_count' = 0
    /\ auto_left' = 0
    /\ total_deleted' = 0
    /\ preview' = <<>>
    /\ report' = NoReport
    /\ sleeps' = 0
    /\ inputs' = NoLog
    /\ attempts' = <<>>
    /\ cmd' = NoText
    /\ cmd_idx' = 0
    /\ cmd_from' = 0
    /\ UNCHANGED <<target_dir, tree, other_tree, checksum_file, fs, locked,
                   events>>

-----------------------------------------------------------------------------
(* delete_duplicates, delete_duplicates_single_dir *)

\* collect the files to delete and select the mode
Enter ==
    /\ pc = "enter"
    /\ files_to_delete' = CollectFiles(duplicates)
    /\ total_deleted' = 0
    /\ idx' = 0
    /\ skip_count' = 0
    /\ IF confirm
       THEN sleep_time' = 0 /\ pc' = "prompt"
       ELSE /\ sleep_time' = sleep_time
            /\ pc' = IF sleep_time = 0 THEN "ask" ELSE "batch"
    /\ UNCHANGED <<command, events, target_dir, skip_existing, tree, other_tree,
                   hashed, summary, previous, checksums,
                   checksum_file, fs, fs0, locked, confirm, base_checksums,
                   other_checksums, duplicates, auto_left, preview, report,
                   sleeps, inputs, attempts, cmd, cmd_idx, cmd_from>>

\* what is recorded: a prompt with the text read at it, the "Skipping file"
\* line of a queue item, a deletion attempt on a queue item with what it
\* printed, and the batch confirmation with the text read at it
Prompted(text) ==
    [kind |-> "prompt", item |-> idx, text |-> text, result |-> "none"]

Skipped(i) == [kind |-> "skip", item |-> i, text |-> NoText, result |-> "none"]

Attempt(i, result) ==
    [kind |-> "attempt", item |-> i, text |-> NoText, result |-> result]

Answered(text) ==
    [kind |-> "confirm", item |-> 0, text |-> text, result |-> "none"]

\* top of an iteration of `while idx < total_files`: the lookahead list is
\* printed and a text is read
ReadInput(text) ==
    /\ pc = "prompt"
    /\ idx < total_files
    /\ preview' = Preview(idx)
    /\ inputs' = Logged(inputs, text)
    /\ cmd' = text
    /\ cmd_idx' = idx
    /\ cmd_from' = Len(attempts)

\* "Delete the current file", `idx += 1`, and entry of the auto-delete loop
\* when skip_count > 0
DeleteCurrent(count) ==
    LET r == DeleteFile(duplicate_path(idx))
    IN  /\ fs' = r.fs
        /\ total_deleted' = total_deleted + r.deleted
        /\ attempts' = Append(attempts, [item |-> idx, result |-> r.result])
        /\ events' = Noted(events, <<Prompted(cmd'), Attempt(idx, r.result)>>)
        /\ idx' = idx + 1
        /\ skip_count' = count
        /\ auto_left' = IF count > 0 THEN count ELSE auto_left
        /\ pc' = IF r.raised THEN "raised"
                 ELSE IF count > 0 THEN "auto" ELSE "prompt"

CmdYes(text) ==
    /\ ReadInput(text)
    /\ Branch(user_input(text)) = "y"
    /\ DeleteCurrent(0)
    /\ UNCHANGED <<command, target_dir, skip_existing, tree, other_tree,
                   hashed, summary, previous, checksums,
                   checksum_file, fs0, locked, confirm, sleep_time, base_checksums,
                   other_checksums, duplicates, files_to_delete, report,
                   sleeps>>

CmdYesNum(text) ==
    /\ ReadInput(text)
    /\ Branch(user_input(text)) = "ynum"
    /\ IF IntRaises(Tail(user_input(text)))
       THEN /\ pc' = "raised"
            /\ events' = Noted(events, <<Prompted(text)>>)
            /\ UNCHANGED <<fs, idx, skip_count, auto_left, total_deleted,
                           attempts>>
       ELSE DeleteCurrent(int(Tail(user_input(text))) - 1)
    /\ UNCHANGED <<command, target_dir, skip_existing, tree, other_tree,
                   hashed, summary, previous, checksums,
                   checksum_file, fs0, locked, confirm, sleep_time,
                   base_checksums, other_checksums, duplicates,
                   files_to_delete, report, sleeps>>

CmdYesAll(text) ==
    /\ ReadInput(text)
    /\ Branch(user_input(text)) = "yall"
    /\ DeleteCurrent(total_files - idx - 1)
    /\ UNCHANGED <<command, target_dir, skip_existing, tree, other_tree,
                   hashed, summary, previous, checksums,
                   checksum_file, fs0, locked, confirm, sleep_time, base_checksums,
                   other_checksums, duplicates, files_to_delete, report,
                   sleeps>>

\* variant: the `n` branch of delete_duplicates_single_dir has no `idx += 1`
CmdNo_single_stays(text) ==
    /\ ReadInput(text)
    /\ Branch(user_input(text)) = "n"
    /\ events' = Noted(events, <<Prompted(text), Skipped(idx)>>)
    /\ idx' = IF command = "dedup" THEN idx ELSE idx + 1
    /\ UNCHANGED <<command, target_dir, skip_existing, tree, other_tree,
                   hashed, summary, previous, checksums,
                   checksum_file, fs, fs0, locked, confirm, sleep_time,
                   base_checksums, other_checksums, duplicates,
                   files_to_delete, skip_count, auto_left, total_deleted, pc,
                   report, sleeps, attempts>>

\* variant: the `n` branch has no `idx += 1`
CmdNo_stays(text) ==
    /\ ReadInput(text)
    /\ Branch(user_input(text)) = "n"
    /\ events' = Noted(events, <<Prompted(text), Skipped(idx)>>)
    /\ idx' = idx
    /\ UNCHANGED <<command, target_dir, skip_existing, tree, other_tree,
                   hashed, summary, previous, checksums,
                   checksum_file, fs, fs0, locked, confirm, sleep_time,
                   base_checksums, other_checksums, duplicates,
                   files_to_delete, skip_count, auto_left, total_deleted, pc,
                   report, sleeps, attempts>>

CmdNo(text) ==
    /\ ReadInput(text)
    /\ Branch(user_input(text)) = "n"
    /\ events' = Noted(events, <<Prompted(text), Skipped(idx)>>)
    /\ idx' = idx + 1
    /\ UNCHANGED <<command, target_dir, skip_existing, tree, other_tree,
                   hashed, summary, previous, checksums,
                   checksum_file, fs, fs0, locked, confirm, sleep_time,
                   base_checksums, other_checksums, duplicates,
                   files_to_delete, skip_count, auto_left, total_deleted, pc,
                   report, sleeps, attempts>>

\* variant: the loop has no `if idx >= total_files: break`
RECURSIVE SkipLoop_unclipped(_, _)
SkipLoop_unclipped(i, left) ==
    IF left <= 0 THEN i
    ELSE SkipLoop_unclipped(i + 1, left - 1)

\* the `for _ in range(num_to_skip)` loop
RECURSIVE SkipLoop(_, _)
SkipLoop(i, left) ==
    IF left <= 0 THEN i
    ELSE IF i >= total_files THEN i
    ELSE SkipLoop(i + 1, left - 1)

CmdNoNum(text) ==
    /\ ReadInput(text)
    /\ Branch(user_input(text)) = "nnum"
    /\ IF IntRaises(Tail(user_input(text)))
       THEN /\ pc' = "raised"
            /\ idx' = idx
            /\ events' = Noted(events, <<Prompted(text)>>)
       ELSE /\ pc' = pc
            /\ idx' = SkipLoop(idx, int(Tail(user_input(text))))
            /\ events' = Noted(events,
                               <<Prompted(text)>>
                               \o [j \in 1..(idx' - idx) |-> Skipped(idx + j - 1)])
    /\ UNCHANGED <<command, target_dir, skip_existing, tree, other_tree,
                   hashed, summary, previous, checksums,
                   checksum_file, fs, fs0, locked, confirm, sleep_time,
                   base_checksums, other_checksums, duplicates,
                   files_to_delete, skip_count, auto_left, total_deleted,
                   report, sleeps, attempts>>

\* variant: nall returns from the function instead of leaving the loop
CmdNoAll_returns(text) ==
    /\ ReadInput(text)
    /\ Branch(user_input(text)) = "nall"
    /\ events' = Noted(events,
                       <<Prompted(text)>>
                       \o [j \in 1..(total_files - idx) |-> Skipped(idx + j - 1)])
    /\ pc' = "returned"
    /\ UNCHANGED <<command, target_dir, skip_existing, tree, other_tree,
                   hashed, summary, previous, checksums,
                   checksum_file, fs, fs0, locked, confirm, sleep_time,
                   base_checksums, other_checksums, duplicates,
                   files_to_delete, idx, skip_count, auto_left, total_deleted,
                   report, sleeps, attempts>>

CmdNoAll(text) ==
    /\ ReadInput(text)
    /\ Branch(user_input(text)) = "nall"
    /\ events' = Noted(events,
                       <<Prompted(text)>>
                       \o [j \in 1..(total_files - idx) |-> Skipped(idx + j - 1)])
    /\ pc' = "report"
    /\ UNCHANGED <<command, target_dir, skip_existing, tree, other_tree,
                   hashed, summary, previous, checksums,
                   checksum_file, fs, fs0, locked, confirm, sleep_time,
                   base_checksums, other_checksums, duplicates,
                   files_to_delete, idx, skip_count, auto_left, total_deleted,
                   report, sleeps, attempts>>

CmdInvalid(text) ==
    /\ ReadInput(text)
    /\ Branch(user_input(text)) = "invalid"
    /\ events' = Noted(events, <<Prompted(text)>>)
    /\ UNCHANGED <<command, target_dir, skip_existing, tree, other_tree,
                   hashed, summary, previous, checksums,
                   checksum_file, fs, fs0, locked, confirm, sleep_time,
                   base_checksums, other_checksums, duplicates,
                   files_to_delete, idx, skip_count, auto_left, total_deleted,
                   pc, report, sleeps, attempts>>

\* one iteration of `for _ in range(skip_count)`
AutoStep ==
    /\ pc = "auto"
    /\ auto_left > 0
    /\ idx' = idx + 1
    /\ IF idx + 1 >= total_files
       THEN /\ auto_left' = 0
            /\ UNCHANGED <<fs, total_deleted, attempts, pc, events>>
       ELSE LET r == DeleteFile(duplicate_path(idx + 1))
            IN  /\ fs' = r.fs
                /\ total_deleted' = total_deleted + r.deleted
                /\ attempts' = Append(attempts,
                                      [item |-> idx + 1, result |-> r.result])
                /\ events' = Noted(events, <<Attempt(idx + 1, r.result)>>)
                /\ auto_left' = auto_left - 1
                /\ pc' = IF r.raised THEN "raised" ELSE "auto"
    /\ UNCHANGED <<command, target_dir, skip_existing, tree, other_tree,
                   hashed, summary, previous, checksums,
                   checksum_file, fs0, locked, confirm, sleep_time, base_checksums,
                   other_checksums, duplicates, files_to_delete, skip_count,
                   preview, report, sleeps, inputs, cmd, cmd_idx, cmd_from>>

\* the loop is left: `skip_count = 0`, back to the top of the while loop
AutoEnd ==
    /\ pc = "auto"
    /\ auto_left = 0
    /\ skip_count' = 0
    /\ pc' = "prompt"
    /\ UNCHANGED <<command, events, target_dir, skip_existing, tree, other_tree,
                   hashed, summary, previous, checksums,
                   checksum_file, fs, fs0, locked, confirm, sleep_time,
                   base_checksums, other_checksums, duplicates,
                   files_to_delete, idx, auto_left, total_deleted, preview,
                   report, sleeps, inputs, attempts, cmd, cmd_idx, cmd_from>>

\* `while idx < total_files` is false
LoopExit ==
    /\ pc = "prompt"
    /\ idx >= total_files
    /\ pc' = "report"
    /\ UNCHANGED <<command, events, target_dir, skip_existing, tree, other_tree,
                   hashed, summary, previous, checksums,
                   checksum_file, fs, fs0, locked, confirm, sleep_time,
                   base_checksums, other_checksums, duplicates,
                   files_to_delete, idx, skip_count, auto_left, total_deleted,
                   preview, report, sleeps, inputs, attempts, cmd, cmd_idx, cmd_from>>

\* variant: only the answer "no" cancels
BatchConfirm_only_no(text) ==
    /\ pc = "ask"
    /\ inputs' = Logged(inputs, text)
    /\ cmd' = text
    /\ events' = Noted(events, <<Answered(text)>>)
    /\ pc' = IF lower(text) = <<"n", "o">> THEN "returned" ELSE "batch"
    /\ UNCHANGED <<command, target_dir, skip_existing, tree, other_tree,
                   hashed, summary, previous, checksums,
                   checksum_file, fs, fs0, locked, confirm, sleep_time,
                   base_checksums, other_checksums, duplicates,
                   files_to_delete, idx, skip_count, auto_left, total_deleted,
                   preview, report, sleeps, attempts, cmd_idx, cmd_from>>

\* "Are you sure you want to continue? (yes/no)"
BatchConfirm(text) ==
    /\ pc = "ask"
    /\ inputs' = Logged(inputs, text)
    /\ cmd' = text
    /\ events' = Noted(events, <<Answered(text)>>)
    /\ pc' = IF lower(text) # <<"y", "e", "s">> THEN "returned" ELSE "batch"
    /\ UNCHANGED <<command, target_dir, skip_existing, tree, other_tree,
                   hashed, summary, previous, checksums,
                   checksum_file, fs, fs0, locked, confirm, sleep_time,
                   base_checksums, other_checksums, duplicates,
                   files_to_delete, idx, skip_count, auto_left, total_deleted,
                   preview, report, sleeps, attempts, cmd_idx, cmd_from>>

\* one iteration of `for idx, item in enumerate(files_to_delete, start=1)`
BatchStep ==
    /\ pc = "batch"
    /\ idx < total_files
    /\ idx' = idx + 1
    /\ LET r == DeleteFile(duplicate_path(idx))
           files_left == total_files - (idx + 1)
       IN  /\ fs' = r.fs
           /\ total_deleted' = total_deleted + r.deleted
           /\ attempts' = Append(attempts, [item |-> idx, result |-> r.result])
           /\ events' = Noted(events, <<Attempt(idx, r.result)>>)
           /\ sleeps' = IF files_left > 0 /\ sleep_time > 0
                        THEN sleeps + 1 ELSE sleeps
           /\ pc' = IF r.raised THEN "raised" ELSE "batch"
    /\ UNCHANGED <<command, target_dir, skip_existing, tree, other_tree,
                   hashed, summary, previous, checksums,
                   checksum_file, fs0, locked, confirm, sleep_time, base_checksums,
                   other_checksums, duplicates, files_to_delete, skip_count,
                   auto_left, preview, report, inputs, cmd, cmd_idx, cmd_from>>

BatchEnd ==
    /\ pc = "batch"
    /\ idx >= total_files
    /\ pc' = "report"
    /\ UNCHANGED <<command, events, target_dir, skip_existing, tree, other_tree,
                   hashed, summary, previous, checksums,
                   checksum_file, fs, fs0, locked, confirm, sleep_time,
                   base_checksums, other_checksums, duplicates,
                   files_to_delete, idx, skip_count, auto_left, total_deleted,
                   preview, report, sleeps, inputs, attempts, cmd, cmd_idx, cmd_from>>

\* "Total duplicate files deleted" and the reminder, then the function returns
Report ==
    /\ pc = "report"
    /\ report' = [printed |-> TRUE, total_deleted |-> total_deleted,
                  reminder |-> command]
    /\ pc' = "returned"
    /\ UNCHANGED <<command, events, target_dir, skip_existing, tree, other_tree,
                   hashed, summary, previous, checksums,
                   checksum_file, fs, fs0, locked, confirm, sleep_time,
                   base_checksums, other_checksums, duplicates,
                   files_to_delete, idx, skip_count, auto_left, total_deleted,
                   preview, sleeps, inputs, attempts, cmd, cmd_idx, cmd_from>>

Next ==
    \/ MainDelete
    \/ MainDedup
    \/ Enter
    \/ \E text \in Inputs : CmdYes(text)
    \/ \E text \in Inputs : CmdYesNum(text)
    \/ \E text \in Inputs : CmdYesAll(text)
    \/ \E text \in Inputs : CmdNo(text)
    \/ \E text \in Inputs : CmdNoNum(text)
    \/ \E text \in Inputs : CmdNoAll(text)
    \/ \E text \in Inputs : CmdInvalid(text)
    \/ AutoStep
    \/ AutoEnd
    \/ LoopExit
    \/ \E text \in Answers : BatchConfirm(text)
    \/ BatchStep
    \/ BatchEnd
    \/ Report

Spec == Init /\ [][Next]_vars

SpecScenario == InitScenario /\ [][Next]_vars

\* the resolver alone: the tables are loaded and resolved, the queue collected
NextResolver == MainDelete \/ Enter

SpecResolver == InitResolver /\ [][NextResolver]_vars

\* the digester alone: a command is run, the deletions it offers are
\* declined, and the same command is run again
NextDigester ==
    \/ MainSearch
    \/ MainDedup
    \/ Enter
    \/ \E text \in Answers : BatchConfirm(text)
    \/ RunAgain(command)

SpecDigester == InitDigester /\ [][NextDigester]_vars

\* 'checksum' and then 'delete' on the file it saved, and 'dedup'
NextRoots ==
    \/ Next
    \/ MainSearch
    \/ command = "checksum" /\ RunAgain("delete")

SpecRoots == InitRoots /\ [][NextRoots]_vars

\* the groups of delete_duplicates as delete_duplicates_single_dir reads them
AsSingleDir(dups) ==
    [i \in 1..Len(dups) |->
        [k |-> dups[i].k,
         v |-> [original |-> dups[i].v.base,
                duplicates |-> dups[i].v.duplicates]]]

\* number of texts read at the interactive prompt so far
Reads ==
    Cardinality({k \in 1..Len(events.list) : events.list[k].kind = "prompt"})

\* delete_duplicates has returned, raised, or waits at a prompt:
\* delete_duplicates_single_dir is called with the same groups, directory,
\* sleep_time, confirm and list_next on the file system as it was
RunTwin ==
    /\ command = "delete"
    /\ previous = NoPass
    /\ pc \in {"returned", "raised"} \/ (pc = "prompt" /\ idx < total_files)
    /\ previous' = [command |-> command,
                    base_checksums |-> base_checksums,
                    other_checksums |-> other_checksums,
                    checksums |-> checksums,
                    fs |-> fs0,
                    files_to_delete |-> files_to_delete,
                    events |-> events.list,
                    pc |-> pc,
                    idx |-> idx,
                    total_deleted |-> total_deleted,
                    removed |-> fs0 \ fs,
                    sleeps |-> sleeps,
                    preview |-> preview,
                    report |-> report]
    /\ command' = "dedup"
    /\ duplicates' = AsSingleDir(duplicates)
    /\ fs' = fs0
    /\ pc' = "enter"
    /\ files_to_delete' = <<>>
    /\ idx' = 0
    /\ skip_count' = 0
    /\ auto_left' = 0
    /\ total_deleted' = 0
    /\ preview' = <<>>
    /\ report' = NoReport
    /\ sleeps' = 0
    /\ attempts' = <<>>
    /\ cmd' = NoText
    /\ cmd_idx' = 0
    /\ cmd_from' = 0
    /\ events' = EmptyEvents
    /\ UNCHANGED <<target_dir, skip_existing, tree, other_tree, hashed, summary,
                   checksums, checksum_file, fs0, locked, confirm, sleep_time,
                   base_checksums, other_checksums, inputs>>

\* the operator types any of the texts in the first run, and in the second
\* run the text typed at this point of the first
Typed(kind, text) ==
    IF previous = NoPass
    THEN IF kind = "prompt" THEN text \in TwinTexts /\ Reads < MaxReads
         ELSE text \in Answers
    ELSE LET k == Len(events.list) + 1
         IN  /\ k <= Len(previous.events)
             /\ previous.events[k].kind = kind
             /\ previous.events[k].text = text

\* delete_duplicates and then delete_duplicates_single_dir, on the same
\* queue, files and texts
NextTwins ==
    \/ MainDelete
    \/ Enter
    \/ \E text \in Inputs : Typed("prompt", text) /\ CmdYes(text)
    \/ \E text \in Inputs : Typed("prompt", text) /\ CmdYesNum(text)
    \/ \E text \in Inputs : Typed("prompt", text) /\ CmdYesAll(text)
    \/ \E text \in Inputs : Typed("prompt", text) /\ CmdNo(text)
    \/ \E text \in Inputs : Typed("prompt", text) /\ CmdNoNum(text)
    \/ \E text \in Inputs : Typed("prompt", text) /\ CmdNoAll(text)
    \/ \E text \in Inputs : Typed("prompt", text) /\ CmdInvalid(text)
    \/ AutoStep
    \/ AutoEnd
    \/ LoopExit
    \/ \E text \in Answers : Typed("confirm", text) /\ BatchConfirm(text)
    \/ BatchStep
    \/ BatchEnd
    \/ Report
    \/ RunTwin

SpecTwins == InitTwins /\ [][NextTwins]_vars

-----------------------------------------------------------------------------
(* Vocabulary of the properties *)

\* the commands as the operator types them
TextYes == <<"y">>
TextNo == <<"n">>
TextYesAll == <<"y", "a", "l", "l">>
TextNoAll == <<"n", "a", "l", "l">>
TextYesNumber(n) == <<"y">> \o NumText(n)
TextNoNumber(n) == <<"n">> \o NumText(n)

\* the interactive loop is between two commands, or over
BetweenCommands == confirm /\ pc \in {"prompt", "report", "returned"}

\* queue positions on which the latest command attempted a deletion, in order
ItemsSince ==
    [j \in 1..(Len(attempts) - cmd_from) |-> attempts[cmd_from + j].item]

\* queue positions on which a deletion has been attempted in this run
Attempted == {attempts[j].item : j \in 1..Len(attempts)}

\* the positions c, c+1, .., clipped at the end of the queue
Consecutive(c, n) == [j \in 1..(Min(c + n, total_files) - c) |-> c + j - 1]

\* the duplicate of queue position i is gone, unless it cannot be removed
Gone(i) == duplicate_path(i) \notin fs \/ duplicate_path(i) \in locked

\* every queue file exists and can be removed when the run starts
AllRemovable ==
    /\ locked = {}
    /\ \A i \in 0..(total_files - 1) : duplicate_path(i) \in fs0

-----------------------------------------------------------------------------
(* C1: in interactive mode the command y<N>, N >= 1, read at cursor c,     *)
(* attempts the deletion of exactly the queue items c, c+1, .., c+N-1      *)
(* (clipped at the end of the queue), in that order, and when it is done   *)
(* each of them that was present and removable is gone.                    *)
C1_YesNumberDeletesConsecutive ==
    \A n \in 1..(MaxN + 1) :
        (BetweenCommands /\ cmd = TextYesNumber(n)) =>
            /\ ItemsSince = Consecutive(cmd_idx, n)
            /\ \A i \in cmd_idx..(Min(cmd_idx + n, total_files) - 1) : Gone(i)

(* C2: in interactive mode the command yall, read at cursor c, attempts    *)
(* the deletion of every item c, c+1, .., total-1 and leaves the cursor at *)
(* the end of the queue, so that the loop ends.                            *)
C2_YesAllDeletesRest ==
    (BetweenCommands /\ cmd = TextYesAll) =>
        /\ ItemsSince = Consecutive(cmd_idx, total_files - cmd_idx)
        /\ \A i \in cmd_idx..(total_files - 1) : Gone(i)
        /\ idx >= total_files

(* C3: when the batch of a command y<N>, N >= 2, is over and items remain, *)
(* the prompt is for the item right after the last item of the batch, an   *)
(* item on which no deletion has been attempted in this run.               *)
C3_PromptAfterBatchIsFresh ==
    \A n \in 2..(MaxN + 1) :
        (confirm /\ pc = "prompt" /\ idx < total_files
         /\ cmd = TextYesNumber(n)) =>
            /\ idx \notin Attempted
            /\ idx = attempts[Len(attempts)].item + 1

(* C4: a queue of 5 pairs whose files all exist and are removable, and the *)
(* texts y3, n, y: the run returns with the deleted counter equal to 4.    *)
C4_Witness ==
    /\ confirm
    /\ pc = "returned"
    /\ total_files = 5
    /\ AllRemovable
    /\ inputs = [kept |-> TRUE,
                 texts |-> <<TextYesNumber(3), TextNo, TextYes>>]

C4_ScenarioDeletesFour ==
    C4_Witness => total_deleted = 4 /\ report.total_deleted = 4

-----------------------------------------------------------------------------
(* C5: at cursor c the command n moves the cursor to c+1 and the command   *)
(* n<N>, N >= 1, moves it to min(c+N, total); the next thing that happens  *)
(* is a prompt, no deletion is attempted, no file is removed and the       *)
(* deleted counter keeps its value.                                        *)

\* a step that reads a text at the interactive prompt
ReadsCommand == confirm /\ pc = "prompt" /\ idx < total_files

SkipsTo(target) ==
    /\ idx' = target
    /\ pc' = "prompt"
    /\ fs' = fs
    /\ total_deleted' = total_deleted
    /\ attempts' = attempts

C5_SkipMovesCursorOnly ==
    [][ /\ (ReadsCommand /\ cmd' = TextNo) => SkipsTo(idx + 1)
        /\ \A n \in 1..(MaxN + 1) :
              (ReadsCommand /\ cmd' = TextNoNumber(n)) =>
                  SkipsTo(Min(idx + n, total_files)) ]_vars

\* n3 read at the second of three items: the skip is clipped at the end
C5_Witness ==
    /\ confirm
    /\ pc = "prompt"
    /\ cmd = TextNoNumber(3)
    /\ cmd_idx = 1
    /\ total_files = 3
    /\ idx = 3
    /\ fs = fs0

(* C6: a text that is none of y, n, y<N>, n<N>, yall, nall leaves the      *)
(* cursor, the deleted counter and the file system as they are, and the    *)
(* next thing that happens is a prompt for the same item.                  *)
CommandTexts ==
    {TextYes, TextNo, TextYesAll, TextNoAll}
    \cup {TextYesNumber(n) : n \in 0..(MaxN + 1)}
    \cup {TextNoNumber(n) : n \in 0..(MaxN + 1)}

C6_InvalidInputReprompts ==
    [][ (ReadsCommand /\ user_input(cmd') \notin CommandTexts) =>
            /\ idx' = idx
            /\ total_deleted' = total_deleted
            /\ fs' = fs
            /\ pc' = "prompt" ]_vars

(* C7: a deletion attempt on a target that does not exist, or that cannot  *)
(* be removed, leaves the deleted counter and the file system as they are  *)
(* and does not end the run: the driver is still in its loop.              *)
AttemptsDeletion == Len(attempts') = Len(attempts) + 1

TargetFails ==
    LET target == duplicate_path(attempts'[Len(attempts')].item)
    IN  target \notin fs \/ target \in locked

Acceptances == {<<"y", "e", "s">>, <<"Y", "e", "s">>}

Declined ==
    ~confirm /\ sleep_time = 0 /\ cmd # NoText /\ cmd \notin Acceptances

C8_BatchConfirmation ==
    /\ (~confirm /\ sleep_time = 0 /\ attempts # <<>>) =>
            cmd \in Acceptances
    /\ Declined =>
            /\ fs = fs0
            /\ attempts = <<>>
            /\ total_deleted = 0
            /\ pc = "returned"
    /\ (~confirm /\ sleep_time > 0) => cmd = NoText

\* the answer "no" on a queue of three files that all exist
C8_Witness ==
    /\ Declined
    /\ cmd = <<"n", "o">>
    /\ pc = "returned"
    /\ total_files = 3
    /\ \A i \in 0..2 : duplicate_path(i) \in fs

(* C9 as stated: every run that has returned has printed the total deleted *)
(* count and the reminder.                                                 *)
Reported ==
    /\ report.printed
    /\ report.reminder = command
    /\ report.total_deleted = total_deleted

C9_EveryReturnReports == pc = "returned" => Reported

(* C9 amended: a run that has returned has printed the total deleted count *)
(* and the reminder, unless it is a batch run with delay 0 whose           *)
(* confirmation was declined: that run has printed neither.                *)
C9_ReturnReportsUnlessDeclined ==
    pc = "returned" => IF Declined THEN report = NoReport ELSE Reported

\* nall after a deletion: the loop is left and the report is printed
C9_Witness ==
    /\ pc = "returned"
    /\ confirm
    /\ cmd = TextNoAll
    /\ idx < total_files
    /\ total_deleted = 1
    /\ Reported

(* C10: the two-tree resolver returns a group for a checksum exactly when  *)
(* the checksum is a key of both tables; the group's canonical is the      *)
(* Canonical entry, its duplicates are the whole Comparison list in list   *)
(* order, and no group has an empty list of duplicates.                    *)
C10_GroupsAreTheCommonChecksums ==
    pc # "main" =>
        /\ Len(duplicates) = Cardinality(DictKeys(duplicates))
        /\ \A d \in Checksums :
              /\ d \in DictKeys(duplicates) <=>
                    (d \in DictKeys(base_checksums)
                     /\ d \in DictKeys(other_checksums))
              /\ d \in DictKeys(duplicates) =>
                    /\ DictValue(duplicates, d).base
                          = DictValue(base_checksums, d)
                    /\ DictValue(duplicates, d).duplicates
                          = DictValue(other_checksums, d)
                    /\ Len(DictValue(duplicates, d).duplicates) >= 1

\* a group of two duplicates listed p2 before p1, and a checksum of the
\* Comparison table that the Canonical table does not have
C10_Witness ==
    /\ pc # "main"
    /\ \E d \in DictKeys(duplicates) :
          DictValue(duplicates, d).duplicates
              = <<[path |-> <<"p2">>], [path |-> <<"p1">>]>>
    /\ DictKeys(other_checksums) \ DictKeys(base_checksums) # {}

-----------------------------------------------------------------------------
(* Vocabulary of the properties of the digester *)

\* the digest of a file: what the hash primitive returns for its content
Digest(f) == compute_xxhash64(f.content)

\* the files the command walked (no file is removed while it digests)
WalkedBase == get_all_files(base_dir, tree)
WalkedOther == get_all_files(other_dir, other_tree)

\* a digesting pass has built its tables and printed its totals
TwoTreePassDone == command \in {"search", "checksum"} /\ summary.printed
SingleTreePassDone == command = "dedup" /\ summary.printed

\* the pairs <<digest, relative path>> that a table of a two-tree pass holds
Recorded(table) == {<<table[i].k, table[i].v.path>> : i \in 1..Len(table)}

\* the lines of the checksum file
FileLines == {checksum_file[i] : i \in 1..Len(checksum_file)}

\* the path of the last of the files that has the digest d
LastWith(files, d) ==
    files[CHOOSE i \in 1..Len(files) :
              /\ Digest(files[i]) = d
              /\ \A j \in (i + 1)..Len(files) : Digest(files[j]) # d].path

\* the paths of the files that have the digest d, in the order of the walk
PathsWith(files, d) ==
    LET same == SelectSeq(files, LAMBDA f : Digest(f) = d)
    IN  [i \in 1..Len(same) |-> same[i].path]

-----------------------------------------------------------------------------
(* C11: after a two-tree digesting pass every comparison file that was     *)
(* walked is recorded in the Comparison table under its digest, and the    *)
(* 'checksum' command has written an OTHER line for it; the Canonical      *)
(* table has one record per digest of the canonical tree, that of the last *)
(* file walked with the digest.                                            *)
C11_ComparisonKeepsEveryFile ==
    TwoTreePassDone =>
        /\ \A i \in 1..Len(WalkedOther) :
              /\ <<Digest(WalkedOther[i]), WalkedOther[i].path>>
                    \in Recorded(other_checksums)
              /\ command = "checksum" =>
                    TabJoin(<< <<"OTHER">>, Digest(WalkedOther[i]),
                               WalkedOther[i].path >>) \in FileLines
        /\ Len(base_checksums) = Cardinality(DictKeys(base_checksums))
        /\ DictKeys(base_checksums)
              = {Digest(WalkedBase[i]) : i \in 1..Len(WalkedBase)}
        /\ \A d \in DictKeys(base_checksums) :
              DictValue(base_checksums, d).path = LastWith(WalkedBase, d)

(* C12: after a two-tree digesting pass the total of duplicates printed is *)
(* the number of comparison files whose digest is in the Canonical table,  *)
(* the total of comparison files printed is the number of comparison files *)
(* walked, and the total of unique files printed is their difference.      *)
C12_TotalsCountComparisonFiles ==
    TwoTreePassDone =>
        /\ summary.total_duplicates
              = Cardinality({i \in 1..Len(WalkedOther) :
                    Digest(WalkedOther[i]) \in DictKeys(base_checksums)})
        /\ summary.total_other_files = Len(WalkedOther)
        /\ summary.total_unique_files
              = summary.total_other_files - summary.total_duplicates

(* C13: after a single-tree digesting pass there is exactly one group for  *)
(* every digest that more than one walked file has and none for any other  *)
(* digest; the canonical of a group is the first file walked with the      *)
(* digest and its duplicates are the later ones, in the order of the walk; *)
(* the total of files printed is the number of files walked.               *)
C13_SingleTreeGroups ==
    SingleTreePassDone =>
        /\ Len(duplicates) = Cardinality(DictKeys(duplicates))
        /\ \A i \in 1..Len(WalkedBase) :
              LET d == Digest(WalkedBase[i])
                  paths == PathsWith(WalkedBase, d)
              IN  /\ d \in DictKeys(duplicates) <=> Len(paths) > 1
                  /\ d \in DictKeys(duplicates) =>
                        LET group == DictValue(duplicates, d)
                        IN  /\ group.original.path = paths[1]
                            /\ [j \in 1..Len(group.duplicates) |->
                                    group.duplicates[j].path] = Tail(paths)
        /\ \A d \in DictKeys(duplicates) :
              \E i \in 1..Len(WalkedBase) : Digest(WalkedBase[i]) = d
        /\ summary.total_base_files = Len(WalkedBase)

\* the first three files walked have one digest and the fourth another
C13_Witness ==
    /\ SingleTreePassDone
    /\ Len(tree) = 4
    /\ Len(duplicates) = 1
    /\ duplicates[1].v.original.path = Name(1)
    /\ Len(duplicates[1].v.duplicates) = 2
    /\ Len(checksums) = 2

-----------------------------------------------------------------------------
(* C14: after a command has saved its table, loading the checksum file     *)
(* gives the pairs of digest and relative path of the table, in the order  *)
(* of the table: in two-tree mode with load_existing_checksums and with    *)
(* load_checksums, in single-tree mode with                                *)
(* load_existing_checksums_single_dir.                                     *)

\* the pairs <<digest, path>> of a table of a two-tree pass, in table order
PairsTwo(table) ==
    [i \in 1..Len(table) |-> <<table[i].k, table[i].v.path>>]

\* those of a table digest -> list of records
RECURSIVE PairsOfLists(_, _)
PairsOfLists(table, i) ==
    IF i > Len(table) THEN <<>>
    ELSE [j \in 1..Len(table[i].v) |-> <<table[i].k, table[i].v[j].path>>]
         \o PairsOfLists(table, i + 1)

\* those of a table of a single-tree pass: the original of a digest, then
\* its duplicates
RECURSIVE PairsSingle(_, _)
PairsSingle(table, i) ==
    IF i > Len(table) THEN <<>>
    ELSE <<<<table[i].k, table[i].v.original.path>>>>
         \o [j \in 1..Len(table[i].v.duplicates) |->
                 <<table[i].k, table[i].v.duplicates[j].path>>]
         \o PairsSingle(table, i + 1)

\* those of a dict path -> digest
PairsOfExisting(existing) ==
    [i \in 1..Len(existing) |-> <<existing[i].v, existing[i].k>>]

C14_SaveLoadRoundTrip ==
    /\ (command = "checksum" /\ summary.printed) =>
          LET existing == load_existing_checksums(checksum_file)
              loaded == load_checksums(checksum_file)
          IN  /\ ~existing.raised
              /\ PairsOfExisting(existing.base) = PairsTwo(base_checksums)
              /\ PairsOfExisting(existing.other) = PairsTwo(other_checksums)
              /\ PairsTwo(loaded.base) = PairsTwo(base_checksums)
              /\ PairsOfLists(loaded.other, 1) = PairsTwo(other_checksums)
    /\ SingleTreePassDone =>
          LET existing == load_existing_checksums_single_dir(checksum_file)
          IN  /\ ~existing.raised
              /\ PairsOfExisting(existing.table) = PairsSingle(checksums, 1)

(* C15: when a line of the checksum file does not split into three fields, *)
(* the 'delete' command has no table, no group and no queue item: no line  *)
(* of the file is used.                                                    *)
Malformed == \E i \in 1..Len(checksum_file) : ~Unpacks(checksum_file[i])

C15_MalformedFileLoadsNothing ==
    (command = "delete" /\ pc # "main" /\ Malformed) =>
        /\ base_checksums = <<>>
        /\ other_checksums = <<>>
        /\ duplicates = <<>>
        /\ files_to_delete = <<>>

(* C16: when 'checksum' or 'dedup' is run again, with reuse, on a tree     *)
(* that has not changed since the first pass started, the second pass      *)
(* completes with tables equal to those of the first and has not called    *)
(* the hash primitive.                                                     *)
SecondPass ==
    /\ previous.command = command
    /\ command \in {"checksum", "dedup"}
    /\ pc # "main"
    /\ fs0 = previous.fs

C16_SecondPassReusesEverything ==
    SecondPass =>
        /\ summary.printed
        /\ hashed = 0
        /\ base_checksums = previous.base_checksums
        /\ other_checksums = previous.other_checksums
        /\ checksums = previous.checksums

-----------------------------------------------------------------------------
(* C17: a batch run that proceeds (positive delay, or delay 0 and the      *)
(* confirmation accepted) works on a queue that lists the groups in table  *)
(* order and the duplicates of a group in list order, and attempts the     *)
(* deletion of the items 0, 1, .., total-1, each once and in this order;   *)
(* when the loop is over every duplicate that existed and was removable is *)
(* gone, and the deleted counter is the number of these files.             *)

\* the number of queue items of the groups before group i
RECURSIVE GroupOffset(_)
GroupOffset(i) ==
    IF i <= 1 THEN 0
    ELSE GroupOffset(i - 1) + Len(duplicates[i - 1].v.duplicates)

QueueInTableOrder ==
    /\ total_files = GroupOffset(Len(duplicates) + 1)
    /\ \A i \in 1..Len(duplicates) :
          \A j \in 1..Len(duplicates[i].v.duplicates) :
              LET item == files_to_delete[GroupOffset(i) + j]
              IN  /\ item.duplicate = duplicates[i].v.duplicates[j]
                  /\ KeptCopy(item) = KeptCopy(duplicates[i].v)

Proceeds == ~confirm /\ (sleep_time > 0 \/ cmd \in Acceptances)

AttemptedItems == [j \in 1..Len(attempts) |-> attempts[j].item]

\* the duplicates of the queue that exist and can be removed at the start
RemovableDuplicates ==
    {duplicate_path(i) : i \in 0..(total_files - 1)} \cap (fs0 \ locked)

C17_BatchAttemptsEveryItemOnce ==
    /\ (Proceeds /\ pc = "batch") =>
          /\ QueueInTableOrder
          /\ AttemptedItems = Consecutive(0, idx)
    /\ (Proceeds /\ pc \in {"report", "returned"}) =>
          /\ QueueInTableOrder
          /\ AttemptedItems = Consecutive(0, total_files)
          /\ RemovableDuplicates \cap fs = {}
          /\ total_deleted = Cardinality(RemovableDuplicates)

\* a batch with delay over three items, of which one is missing and one
\* cannot be removed
C17_Witness ==
    /\ Proceeds
    /\ pc = "returned"
    /\ total_files = 3
    /\ sleeps = 2
    /\ duplicate_path(0) \in locked
    /\ duplicate_path(1) \notin fs0
    /\ duplicate_path(2) \in fs0 \ fs
    /\ total_deleted = 1

(* C18 as stated: in interactive mode the cursor never decreases, and a    *)
(* text that is one of y, n, y<N>, n<N> (N >= 0), yall, nall moves the     *)
(* cursor forward or ends the loop.                                        *)
C18_EveryCommandAdvances ==
    [][ /\ (confirm /\ pc \in {"prompt", "auto"}) => idx' >= idx
        /\ (ReadsCommand /\ user_input(cmd') \in CommandTexts) =>
              idx' > idx \/ pc' \in {"report", "returned"} ]_vars

(* C18 amended: in interactive mode the cursor never decreases; a text     *)
(* that is one of y, n, y<N> (N >= 0), n<N> (N >= 1), yall, nall moves the *)
(* cursor forward or ends the loop; n0 leaves the cursor where it is and   *)
(* the same item is prompted again. A text is read only at a cursor in     *)
(* 0..total-1, so the loop is over after at most `total` commands that are *)
(* not n0.                                                                 *)
C18_CommandsAdvanceExceptNoZero ==
    [][ /\ (confirm /\ pc \in {"prompt", "auto"}) => idx' >= idx
        /\ ReadsCommand => idx \in 0..(total_files - 1)
        /\ (ReadsCommand
            /\ user_input(cmd') \in CommandTexts \ {TextNoNumber(0)}) =>
              idx' > idx \/ pc' \in {"report", "returned"}
        /\ (ReadsCommand /\ user_input(cmd') = TextNoNumber(0)) =>
              idx' = idx /\ pc' = "prompt" ]_vars

\* n0 read at the last of three items, after a deletion and a skip
C18_Witness ==
    /\ confirm
    /\ pc = "prompt"
    /\ total_files = 3
    /\ Len(attempts) = 1
    /\ cmd = TextNoNumber(0)
    /\ cmd_idx = 2
    /\ idx = 2

-----------------------------------------------------------------------------
(* C19: in a 'dedup' run, whatever the order of the walk, the mode and the *)
(* texts of the operator, the original of every group and of every queue   *)
(* item is never removed, so that of every content found in the tree at    *)
(* least one file is left.                                                 *)
C19_OriginalIsNeverRemoved ==
    command = "dedup" =>
        /\ \A i \in 1..Len(checksums) :
              AbsPath(base_dir, checksums[i].v.original.path) \in fs
        /\ \A i \in 1..Len(files_to_delete) :
              AbsPath(base_dir, files_to_delete[i].original.path) \in fs
        /\ \A i \in 1..Len(tree) :
              \E j \in 1..Len(tree) :
                  /\ Digest(tree[j]) = Digest(tree[i])
                  /\ AbsPath(base_dir, tree[j].path) \in fs

\* a batch run over three files of one content: the first one is left
C19_Witness ==
    /\ command = "dedup"
    /\ ~confirm
    /\ pc = "returned"
    /\ Len(tree) = 3
    /\ \A i \in 1..3 : tree[i].content = "A"
    /\ total_deleted = 2
    /\ fs = {AbsPath(base_dir, Name(1))}

(* C20: in a 'delete' run, wherever the comparison root lies (apart from   *)
(* the canonical root, the same directory, or a directory below it), a     *)
(* file whose absolute path is the canonical path of a queue item and that *)
(* exists when the run starts is never removed.                            *)
C20_CanonicalPathIsNeverRemoved ==
    command = "delete" =>
        \A i \in 1..Len(files_to_delete) :
            LET canonical == AbsPath(base_dir, files_to_delete[i].base.path)
            IN  canonical \in fs0 => canonical \in fs

-----------------------------------------------------------------------------
(* C22: in every state of a run of the driver, in both modes and whatever  *)
(* the operator types, the deleted counter is the number of files that the *)
(* run has removed so far, which is the number of its attempts that        *)
(* removed a file, and it is not larger than the number of queue items.    *)
RemovedFiles == fs0 \ fs

SuccessfulAttempts ==
    {j \in 1..Len(attempts) : attempts[j].result = "deleted"}

C22_CounterCountsRemovedFiles ==
    /\ fs \subseteq fs0
    /\ total_deleted = Cardinality(RemovedFiles)
    /\ total_deleted = Cardinality(SuccessfulAttempts)
    /\ total_deleted <= total_files

\* an interactive run over three items, one of which cannot be removed: three
\* attempts, two files removed
C22_Witness ==
    /\ confirm
    /\ pc = "returned"
    /\ total_files = 3
    /\ Len(attempts) = 3
    /\ \E j \in 1..3 : attempts[j].result = "error"
    /\ total_deleted = 2
    /\ Cardinality(RemovedFiles) = 2

-----------------------------------------------------------------------------
(* C21: delete_duplicates_single_dir, called with the queue, the mode, the *)
(* delay, the files and the texts of a call of delete_duplicates, makes    *)
(* the same prompts, skips and deletion attempts in the same order, with   *)
(* the same outcomes, removes the same files, and ends as it does (it      *)
(* returns, raises, or waits for a text at the same item) with the same    *)
(* cursor, the same deleted counter and the same report of the counter.    *)

\* the state is one of the call of delete_duplicates_single_dir
SecondCall == previous # NoPass /\ command = "dedup"

IsPrefix(a, b) ==
    /\ Len(a) <= Len(b)
    /\ \A k \in 1..Len(a) : a[k] = b[k]

SameQueue ==
    /\ Len(files_to_delete) = Len(previous.files_to_delete)
    /\ \A i \in 1..Len(files_to_delete) :
          /\ files_to_delete[i].duplicate = previous.files_to_delete[i].duplicate
          /\ files_to_delete[i].original = previous.files_to_delete[i].base

\* the second call has done all that the first call did
CaughtUp == Len(events.list) = Len(previous.events)

====
